---- MODULE Spec2Model ----
(***************************************************************************)
(* verify-k8s-certs (src/verify.go): a process that lists every service of *)
(* a cluster, opens a TLS connection to each port, publishes the seconds   *)
(* to expiration of each peer certificate and sleeps until the next scan.  *)
(*                                                                         *)
(* main parses its flags, starts discoverServices as a goroutine and then  *)
(* serves /metrics, /livez and /healthz.  The cluster directory and the    *)
(* network are the environment: each listing and each probe outcome is a   *)
(* nondeterministic choice.  Durations and instants are in milliseconds.   *)
(* Time is observed where the code observes it (time.Now in testTLS) and   *)
(* advances where the code waits (time.Sleep).                             *)
(***************************************************************************)
EXTENDS Integers, Sequences, FiniteSets, TLC

\* ------------------------------------------------------------------ bounds

\* Number of scan cycles after which the loop is not woken up again.
MaxCycles == 2

\* ------------------------------------------------------------------ strings

\* Strings the code inspects character by character are sequences of
\* one-character strings.
EmptyString == << >>

IsDigit(c) == c \in {"0", "1", "2", "3", "4", "5", "6", "7", "8", "9"}

DigitValue(c) ==
    CASE c = "0" -> 0 [] c = "1" -> 1 [] c = "2" -> 2 [] c = "3" -> 3
      [] c = "4" -> 4 [] c = "5" -> 5 [] c = "6" -> 6 [] c = "7" -> 7
      [] c = "8" -> 8 [] c = "9" -> 9

DigitChar(d) ==
    CASE d = 0 -> "0" [] d = 1 -> "1" [] d = 2 -> "2" [] d = 3 -> "3"
      [] d = 4 -> "4" [] d = 5 -> "5" [] d = 6 -> "6" [] d = 7 -> "7"
      [] d = 8 -> "8" [] d = 9 -> "9"

\* strconv.Itoa on a non-negative int: the decimal digits, most significant
\* first.
RECURSIVE Itoa(_)
Itoa(n) ==
    IF n < 10 THEN << DigitChar(n) >>
    ELSE Append(Itoa(n \div 10), DigitChar(n % 10))

\* Length of the longest prefix of s made of digits.
RECURSIVE DigitPrefixLen(_)
DigitPrefixLen(s) ==
    IF s = << >> \/ ~IsDigit(Head(s)) THEN 0
    ELSE 1 + DigitPrefixLen(Tail(s))

RECURSIVE DigitsValue(_, _)
DigitsValue(s, acc) ==
    IF s = << >> THEN acc
    ELSE DigitsValue(Tail(s), acc * 10 + DigitValue(Head(s)))

\* Milliseconds in one unit of time.ParseDuration; 0 for an unknown unit.
UnitMillis(u) ==
    CASE u = << "m", "s" >> -> 1
      [] u = << "s" >>      -> 1000
      [] u = << "m" >>      -> 60000
      [] u = << "h" >>      -> 3600000
      [] OTHER              -> 0

\* time.ParseDuration on "<digits><unit>": the empty string, a missing
\* number, a missing unit and an unknown unit are errors.
ParseDuration(s) ==
    LET n    == DigitPrefixLen(s)
        unit == SubSeq(s, n + 1, Len(s))
    IN  IF n = 0 \/ UnitMillis(unit) = 0
        THEN [err |-> TRUE, d |-> 0]
        ELSE [err |-> FALSE, d |-> DigitsValue(SubSeq(s, 1, n), 0) * UnitMillis(unit)]

\* regexp.Compile on patterns made of literal characters with an optional
\* leading ^: an unmatched parenthesis is a compile error (then the
\* returned *Regexp is nil).
NilRegexp == [nil |-> TRUE]

regexp_Compile(src) ==
    IF \E i \in 1..Len(src) : src[i] \in {"(", ")"}
    THEN [err |-> TRUE, re |-> NilRegexp]
    ELSE IF src # << >> /\ Head(src) = "^"
         THEN [err |-> FALSE, re |-> [nil |-> FALSE, anchored |-> TRUE, lit |-> Tail(src)]]
         ELSE [err |-> FALSE, re |-> [nil |-> FALSE, anchored |-> FALSE, lit |-> src]]

\* (*Regexp).Match: the pattern matches anywhere in b (at the start only
\* when anchored).
Regexp_Match(re, b) ==
    LET n == Len(re.lit)
    IN  IF re.anchored
        THEN n <= Len(b) /\ SubSeq(b, 1, n) = re.lit
        ELSE \E i \in 0..Len(b) : i + n <= Len(b) /\ SubSeq(b, i + 1, i + n) = re.lit

\* ------------------------------------------------------------------ inputs

\* Values of the -frequency, -timeout and -skip-namespace-regex flags.
FrequencyFlags == { << "2", "h" >>, << "2", "x" >> }
TimeoutFlags   == { << "4", "0", "0", "m", "s" >>, EmptyString }
RegexFlags     == { EmptyString, << "^", "k", "u", "b", "e", "-" >>, << "(" >> }

NsDefault    == << "d", "e", "f", "a", "u", "l", "t" >>
NsKubeSystem == << "k", "u", "b", "e", "-", "s", "y", "s", "t", "e", "m" >>

SvcApi == [name |-> "api", namespace |-> NsDefault, ports |-> << 443, 80 >>]
SvcWeb == [name |-> "web", namespace |-> NsDefault, ports |-> << 443 >>]
SvcDns == [name |-> "kube-dns", namespace |-> NsKubeSystem, ports |-> << 53 >>]

\* What the cluster directory may return for one listing.
Listings == { << SvcDns, SvcWeb >>, << SvcApi >> }

\* Certificates a server may present.  CertLeaf and CertRenewed have the
\* same issuer; CertLeaf expires before the second scan, CertOld has
\* expired before the process started.
CertLeaf    == [issuerCN |-> "ca", issuerSerial |-> "", notAfter |-> 3600500]
CertRenewed == [issuerCN |-> "ca", issuerSerial |-> "", notAfter |-> 90000000]
CertOld     == [issuerCN |-> "root", issuerSerial |-> "7", notAfter |-> (0 - 1500)]

\* Peer certificate chains, leaf first.
Chains == { << CertLeaf >>, << CertLeaf, CertRenewed, CertOld >> }

\* ------------------------------------------------------------------ state

VARIABLES
    args,                       \* the command line: frequency, timeout, regex
    proc,                       \* "running", "exit1", "panic" or "exit0"
    mainpc,                     \* position of main
    discoverFrequency,          \* discoverServices' parameters
    tlsTimeout,
    looppc,                     \* position of the discoverServices goroutine
    r,                          \* the compiled skip pattern
    services,                   \* the listing of the current cycle
    err,                        \* whether the listing returned an error
    si,                         \* index of the service being ranged over
    pi,                         \* index of the port being ranged over
    discoveredTLScertificates,  \* the cycle's count
    target,                     \* testTLS: svc, namespace, port
    conn,                       \* testTLS: the connection, or NoConn
    dialErr,                    \* testTLS: the error of the dial, or "nil"
    certs,                      \* testTLS: the peer chain read from conn
    ci,                         \* testTLS: index of the certificate ranged over
    discoveredTLScerts,         \* testTLS: the probe's count
    certsExpiryDates,           \* testTLS: the logged dates
    ret,                        \* testTLS' return values
    expiredCertsGauge,          \* label tuple -> seconds to expiration
    discoveredCertsGauge,
    hearthbeatCounter,
    now,                        \* the wall clock
    openConns,                  \* connections the process holds open
    response,                   \* the last HTTP response served
    listings,                   \* history: listings that succeeded
    probed,                     \* history: << si, pi >> of the cycle's probes
    netLog,                     \* history: whether the network let each of
                                \* them through, and with how many certificates
    lastCycle                   \* history: the number and the total of the
                                \* last cycle that has completed

vars == << args, proc, mainpc, discoverFrequency, tlsTimeout, looppc, r,
           services, err, si, pi, discoveredTLScertificates, target, conn, dialErr,
           certs, ci, discoveredTLScerts, certsExpiryDates, ret, expiredCertsGauge,
           discoveredCertsGauge, hearthbeatCounter, now, openConns, response,
           listings, probed, netLog, lastCycle >>

mainVars == << args, mainpc, discoverFrequency, tlsTimeout >>
cycleVars == << services, err, si, pi, discoveredTLScertificates >>
probeVars ==
    << target, conn, dialErr, certs, ci, discoveredTLScerts, certsExpiryDates,
       ret >>
metricVars == << expiredCertsGauge, discoveredCertsGauge, hearthbeatCounter >>
histVars == << listings, probed, netLog, lastCycle >>

\* The certificates of the probes of the cycle that got through.
RECURSIVE SumOfSuccessful(_)
SumOfSuccessful(log) ==
    IF log = << >> THEN 0
    ELSE (IF Head(log).ok THEN Head(log).certs ELSE 0) + SumOfSuccessful(Tail(log))

NoConn == [state |-> "nil", peerCertificates |-> << >>]
NoTarget == [svc |-> "", namespace |-> << >>, port |-> 0]
NoRet == [ok |-> FALSE, certsNum |-> 0, set |-> FALSE]
NoMetrics == [discovered |-> 0, heartbeat |-> 0]
NoResponse == [path |-> "", status |-> 0, text |-> "", metrics |-> NoMetrics]

Init ==
    /\ args \in [frequency : FrequencyFlags, timeout : TimeoutFlags,
                 skipNamespaceRegex : RegexFlags]
    /\ proc = "running"
    /\ mainpc = "parse"
    /\ discoverFrequency = 0
    /\ tlsTimeout = 0
    /\ looppc = "notstarted"
    /\ r = NilRegexp
    /\ services = << >>
    /\ err = FALSE
    /\ si = 0
    /\ pi = 0
    /\ discoveredTLScertificates = 0
    /\ target = NoTarget
    /\ conn = NoConn
    /\ dialErr = "nil"
    /\ certs = << >>
    /\ ci = 0
    /\ discoveredTLScerts = 0
    /\ certsExpiryDates = << >>
    /\ ret = NoRet
    /\ expiredCertsGauge = [k \in {} |-> 0]
    /\ discoveredCertsGauge = 0
    /\ hearthbeatCounter = 0
    /\ now = 0
    /\ openConns = 0
    /\ response = NoResponse
    /\ listings = 0
    /\ probed = << >>
    /\ netLog = << >>
    /\ lastCycle = [number |-> 0, total |-> 0]


\* ------------------------------------------------------------------ main

\* A fatal path: the process is gone, every goroutine with it.
Running == proc = "running"

\* A variant of main_ParseFlags that does not look at the error of the
\* timeout.
main_ParseFlags_FrequencyOnly ==
    /\ Running /\ mainpc = "parse"
    /\ LET f == ParseDuration(args.frequency)
           t == ParseDuration(args.timeout)
       IN  IF f.err
           THEN /\ proc' = "exit1"
                /\ UNCHANGED << mainpc, discoverFrequency, tlsTimeout >>
           ELSE /\ discoverFrequency' = f.d
                /\ tlsTimeout' = t.d
                /\ mainpc' = "go"
                /\ proc' = proc
    /\ UNCHANGED << args, looppc, r, cycleVars, probeVars, metricVars, now,
                    openConns, response, histVars >>

\* main, flag parsing: an invalid duration prints and exits with status 1.
main_ParseFlags ==
    /\ Running /\ mainpc = "parse"
    /\ LET f == ParseDuration(args.frequency)
           t == ParseDuration(args.timeout)
       IN  IF f.err \/ t.err
           THEN /\ proc' = "exit1"
                /\ UNCHANGED << mainpc, discoverFrequency, tlsTimeout >>
           ELSE /\ discoverFrequency' = f.d
                /\ tlsTimeout' = t.d
                /\ mainpc' = "go"
                /\ proc' = proc
    /\ UNCHANGED << args, looppc, r, cycleVars, probeVars, metricVars, now,
                    openConns, response, histVars >>

\* main: go discoverServices(...).
main_Go ==
    /\ Running /\ mainpc = "go"
    /\ looppc' = "setup"
    /\ mainpc' = "listen"
    /\ UNCHANGED << args, proc, discoverFrequency, tlsTimeout, r, cycleVars,
                    probeVars, metricVars, now, openConns, response, histVars >>

\* main: the handlers are registered and http.ListenAndServe is called.  It
\* blocks while it serves; when it cannot listen it returns, main returns
\* and the process ends.
main_ListenAndServe ==
    /\ Running /\ mainpc = "listen"
    /\ \E listening \in BOOLEAN :
          IF listening
          THEN mainpc' = "serving" /\ proc' = proc
          ELSE mainpc' = "returned" /\ proc' = "exit0"
    /\ UNCHANGED << args, discoverFrequency, tlsTimeout, looppc, r, cycleVars,
                    probeVars, metricVars, now, openConns, response, histVars >>

\* The server takes requests once it listens, each in its own goroutine.
Serving == Running /\ mainpc = "serving"

HealthPaths == { "/livez", "/healthz" }

\* healthcheckHandler, registered for /livez and /healthz.
healthcheckHandler(path) ==
    /\ Serving
    /\ response' = [path |-> path, status |-> 200, text |-> "Mi sento bene!",
                    metrics |-> NoMetrics]
    /\ UNCHANGED << mainVars, proc, looppc, r, cycleVars, probeVars, metricVars,
                    now, openConns, histVars >>

\* A variant of promhttp_Handler that waits for the scan cycle in progress
\* to end.
promhttp_Handler_AfterScan ==
    /\ Serving
    /\ looppc \in {"list", "sleep"}
    /\ response' = [path |-> "/metrics", status |-> 200, text |-> "",
                    metrics |-> [discovered |-> discoveredCertsGauge,
                                 heartbeat |-> hearthbeatCounter]]
    /\ UNCHANGED << mainVars, proc, looppc, r, cycleVars, probeVars, metricVars,
                    now, openConns, histVars >>

\* promhttp.Handler, registered for /metrics: the registry's current values.
promhttp_Handler ==
    /\ Serving
    /\ response' = [path |-> "/metrics", status |-> 200, text |-> "",
                    metrics |-> [discovered |-> discoveredCertsGauge,
                                 heartbeat |-> hearthbeatCounter]]
    /\ UNCHANGED << mainVars, proc, looppc, r, cycleVars, probeVars, metricVars,
                    now, openConns, histVars >>


\* ------------------------------------------------------------------ testTLS

\* Integer division and remainder of Go: truncated toward zero.
Quot(a, b) == IF a >= 0 THEN a \div b ELSE 0 - ((0 - a) \div b)
Rem(a, b) == a - b * Quot(a, b)

\* Duration.Seconds: the whole seconds plus the remainder as a fraction,
\* kept here as the pair (sec, msec) whose value is sec + msec / 1000.
Seconds(d) == [sec |-> Quot(d, 1000), msec |-> Rem(d, 1000)]

\* A variant of Sub that takes the difference the other way round, the
\* time since the expiration.
Sub_Reversed(notAfter, t) == t - notAfter

\* cert.NotAfter.Sub(time.Now()).
Sub(notAfter, t) == notAfter - t

\* cert.NotAfter.Format("2006-January-02"): the calendar day of the instant.
Format(t) == << "day", t \div 86400000 >>

\* make([]string, 10): ten empty strings.
MakeStrings == [i \in 1..10 |-> << >>]

\* A variant of LabelValues whose last label is the number of the cycle
\* instead of the issuer's serial number.
LabelValues_PerCycle(namespace, svc, port, cert) ==
    << namespace, svc, Itoa(port), cert.issuerCN, Itoa(hearthbeatCounter) >>

\* The label values of one certificate's series.
LabelValues(namespace, svc, port, cert) ==
    << namespace, svc, Itoa(port), cert.issuerCN, cert.issuerSerial >>

\* A variant of GaugeSet that adds v to the value the series holds.
GaugeSet_Add(g, key, v) ==
    [k \in DOMAIN g \cup {key} |->
        IF k # key THEN g[k]
        ELSE IF key \in DOMAIN g
             THEN [sec |-> g[k].sec + v.sec, msec |-> g[k].msec + v.msec]
             ELSE v]

\* A variant of GaugeSet that leaves a series that exists as it is.
GaugeSet_KeepFirst(g, key, v) ==
    [k \in DOMAIN g \cup {key} |-> IF k \in DOMAIN g THEN g[k] ELSE v]

\* GaugeVec.WithLabelValues(...).Set(v): the series is created when it does
\* not exist, and its value replaced.
GaugeSet(g, key, v) ==
    [k \in DOMAIN g \cup {key} |-> IF k = key THEN v ELSE g[k]]

\* A variant of testTLS_return that closes the connection only when the
\* probe succeeded.
testTLS_return_CloseOnSuccess(ok, n) ==
    /\ ret' = [ok |-> ok, certsNum |-> n, set |-> TRUE]
    /\ IF conn.state = "open" /\ ok
       THEN /\ conn' = [conn EXCEPT !.state = "closed"]
            /\ openConns' = openConns - 1
       ELSE UNCHANGED << conn, openConns >>
    /\ looppc' = "ret"

\* The return of testTLS: the values returned, and the deferred conn.Close
\* when the connection had been opened.
testTLS_return(ok, n) ==
    /\ ret' = [ok |-> ok, certsNum |-> n, set |-> TRUE]
    /\ IF conn.state = "open"
       THEN /\ conn' = [conn EXCEPT !.state = "closed"]
            /\ openConns' = openConns - 1
       ELSE UNCHANGED << conn, openConns >>
    /\ looppc' = "ret"

\* A variant of testTLS_DialFailed that publishes a series without issuer
\* for the target that could not be reached.
testTLS_DialFailed_Flagged ==
    /\ testTLS_return(FALSE, 0)
    /\ expiredCertsGauge' =
          GaugeSet(expiredCertsGauge,
                   << target.namespace, target.svc, Itoa(target.port), "", "" >>,
                   Seconds(0))
    /\ UNCHANGED << discoveredCertsGauge, hearthbeatCounter >>

\* What testTLS does when tls.DialWithDialer returned an error: logged,
\* return false, 0.
testTLS_DialFailed ==
    /\ testTLS_return(FALSE, 0)
    /\ UNCHANGED metricVars

\* A variant of Dialer that leaves the time limit at its zero value, as
\* tls.Dial does.
Dialer_NoTimeout(timeout) ==
    [Timeout |-> 0]

\* The dialer testTLS builds: its time limit is the configured timeout. A
\* limit of zero means no limit.
Dialer(timeout) ==
    [Timeout |-> timeout]

\* testTLS up to the dial: tls.DialWithDialer returns an error at once (the
\* connection was refused or the handshake failed: logged, return false,
\* 0), or a connection holding the peer chain, or it blocks because the
\* address does not answer.
testTLS_Dial ==
    /\ Running /\ looppc = "dial"
    /\ \/ /\ netLog' = Append(netLog, [ok |-> FALSE, certs |-> 0])
          /\ dialErr' = "refused"
          /\ testTLS_DialFailed
       \/ /\ looppc' = "dialing"
          /\ UNCHANGED << conn, dialErr, openConns, ret, netLog, metricVars >>
       \/ \E chain \in Chains :
            /\ conn' = [state |-> "open", peerCertificates |-> chain]
            /\ openConns' = openConns + 1
            /\ looppc' = "write"
            /\ UNCHANGED << dialErr, ret, netLog, metricVars >>
    /\ UNCHANGED << mainVars, proc, r, cycleVars, target, certs, ci,
                    discoveredTLScerts, certsExpiryDates, now, response,
                    listings, probed, lastCycle >>

\* tls.DialWithDialer blocked on an address that does not answer: when the
\* dialer has a time limit the call returns an error once the limit has
\* passed (logged, return false, 0); without a limit it stays blocked.
testTLS_DialTimeout ==
    /\ Running /\ looppc = "dialing"
    /\ Dialer(tlsTimeout).Timeout > 0
    /\ netLog' = Append(netLog, [ok |-> FALSE, certs |-> 0])
    /\ dialErr' = "timeout"
    /\ testTLS_DialFailed
    /\ UNCHANGED << mainVars, proc, r, cycleVars, target, certs, ci,
                    discoveredTLScerts, certsExpiryDates, now, response,
                    listings, probed, lastCycle >>

\* A variant of testTLS_WriteFailed that goes on to the peer certificates
\* as if the write had succeeded.
testTLS_WriteFailed_Ignored ==
    /\ certs' = conn.peerCertificates
    /\ certsExpiryDates' = MakeStrings
    /\ discoveredTLScerts' = 0
    /\ ci' = 1
    /\ looppc' = "range_certs"
    /\ UNCHANGED << conn, openConns, ret >>

\* What testTLS does when conn.Write fails: logged, return false, 0.
testTLS_WriteFailed ==
    /\ testTLS_return(FALSE, 0)
    /\ UNCHANGED << certs, ci, discoveredTLScerts, certsExpiryDates >>

\* conn.Write([]byte("ping\n")) and, when it succeeded, the read of the
\* peer certificates and the set-up of the range over them.
testTLS_Write ==
    /\ Running /\ looppc = "write"
    /\ \E written \in BOOLEAN :
          IF written
          THEN /\ netLog' = Append(netLog, [ok |-> TRUE,
                                            certs |-> Len(conn.peerCertificates)])
               /\ certs' = conn.peerCertificates
               /\ certsExpiryDates' = MakeStrings
               /\ discoveredTLScerts' = 0
               /\ ci' = 1
               /\ looppc' = "range_certs"
               /\ UNCHANGED << conn, openConns, ret >>
          ELSE /\ netLog' = Append(netLog, [ok |-> FALSE, certs |-> 0])
               /\ testTLS_WriteFailed
    /\ UNCHANGED << mainVars, proc, r, cycleVars, target, dialErr, metricVars,
                    now, response, listings, probed, lastCycle >>

\* One iteration of the range over certs.
testTLS_RangeCerts ==
    /\ Running /\ looppc = "range_certs"
    /\ ci <= Len(certs)
    /\ LET cert == certs[ci]
           timeToExpiration == Sub(cert.notAfter, now)
       IN  /\ discoveredTLScerts' = discoveredTLScerts + 1
           /\ certsExpiryDates' = Append(certsExpiryDates, Format(cert.notAfter))
           /\ expiredCertsGauge' =
                 GaugeSet(expiredCertsGauge,
                          LabelValues(target.namespace, target.svc, target.port, cert),
                          Seconds(timeToExpiration))
    /\ ci' = ci + 1
    /\ UNCHANGED << mainVars, proc, looppc, r, cycleVars, target, conn, dialErr,
                    certs, ret, discoveredCertsGauge, hearthbeatCounter, now, openConns,
                    response, histVars >>

\* A variant of testTLS_Return that returns the length of the slice of
\* dates as the count.
testTLS_Return_LenOfDates ==
    /\ Running /\ looppc = "range_certs"
    /\ ci > Len(certs)
    /\ testTLS_return(TRUE, Len(certsExpiryDates))
    /\ UNCHANGED << mainVars, proc, r, cycleVars, target, dialErr, certs, ci,
                    discoveredTLScerts, certsExpiryDates, metricVars, now,
                    response, histVars >>

\* The range is over: the dates are logged and testTLS returns true and its
\* count.
testTLS_Return ==
    /\ Running /\ looppc = "range_certs"
    /\ ci > Len(certs)
    /\ testTLS_return(TRUE, discoveredTLScerts)
    /\ UNCHANGED << mainVars, proc, r, cycleVars, target, dialErr, certs, ci,
                    discoveredTLScerts, certsExpiryDates, metricVars, now,
                    response, histVars >>


\* ------------------------------------------------------------------ discoverServices

\* panic(err.Error()) in a goroutine ends the process.
Panic == proc' = "panic"

\* discoverServices before its loop: the in-cluster configuration and the
\* client set (which the environment may refuse), then the skip pattern,
\* whose compile error panics only for a non-empty pattern.
discoverServices_Setup ==
    /\ Running /\ looppc = "setup"
    /\ \E inCluster \in BOOLEAN :
          LET c == regexp_Compile(args.skipNamespaceRegex)
          IN  IF ~inCluster \/ (args.skipNamespaceRegex # EmptyString /\ c.err)
              THEN Panic /\ UNCHANGED << looppc, r >>
              ELSE /\ r' = c.re
                   /\ looppc' = "list"
                   /\ proc' = proc
    /\ UNCHANGED << mainVars, cycleVars, probeVars, metricVars, now, openConns,
                    response, histVars >>

\* A variant of discoverServices_ListFailed that goes on with an empty
\* listing.
discoverServices_ListFailed_Degraded ==
    /\ err' = TRUE
    /\ services' = << >>
    /\ si' = 1
    /\ looppc' = "range_svc"
    /\ proc' = proc
    /\ UNCHANGED << pi, histVars >>

\* What the loop does when the listing returned an error: it panics.
discoverServices_ListFailed ==
    /\ err' = TRUE
    /\ Panic
    /\ UNCHANGED << looppc, services, si, pi, histVars >>

\* The head of the loop body: the count starts at 0 and the services of all
\* namespaces are listed.
discoverServices_List ==
    /\ Running /\ looppc = "list"
    /\ discoveredTLScertificates' = 0
    /\ \/ discoverServices_ListFailed
       \/ \E items \in Listings :
            /\ services' = items
            /\ err' = FALSE
            /\ si' = 1
            /\ pi' = 0
            /\ looppc' = "range_svc"
            /\ listings' = listings + 1
            /\ probed' = << >>
            /\ netLog' = << >>
            /\ lastCycle' = lastCycle
            /\ proc' = proc
    /\ UNCHANGED << mainVars, r, probeVars, metricVars, now, openConns, response >>

\* A variant of ShouldSkip without the test for the empty pattern.
ShouldSkip_MatchOnly(skipNamespaceRegex, re, ns) == Regexp_Match(re, ns)

\* The condition under which a service is skipped.
ShouldSkip(skipNamespaceRegex, re, ns) ==
    skipNamespaceRegex # EmptyString /\ Regexp_Match(re, ns)

\* One iteration of the range over services.Items, up to the range over
\* the service's ports; past the last service the cycle's metrics follow.
discoverServices_RangeServices ==
    /\ Running /\ looppc = "range_svc"
    /\ IF si > Len(services)
       THEN /\ looppc' = "set_gauge"
            /\ UNCHANGED << si, pi >>
       ELSE IF ShouldSkip(args.skipNamespaceRegex, r, services[si].namespace)
            THEN /\ si' = si + 1
                 /\ UNCHANGED << looppc, pi >>
            ELSE /\ pi' = 1
                 /\ looppc' = "range_port"
                 /\ si' = si
    /\ UNCHANGED << mainVars, proc, r, services, err, discoveredTLScertificates,
                    probeVars, metricVars, now, openConns, response, histVars >>

\* One iteration of the range over the ports: the call of testTLS; past the
\* last port the next service follows.
discoverServices_RangePorts ==
    /\ Running /\ looppc = "range_port"
    /\ IF pi > Len(services[si].ports)
       THEN /\ si' = si + 1
            /\ looppc' = "range_svc"
            /\ UNCHANGED << target, probed >>
       ELSE /\ target' = [svc |-> services[si].name,
                          namespace |-> services[si].namespace,
                          port |-> services[si].ports[pi]]
            /\ probed' = Append(probed, << si, pi >>)
            /\ looppc' = "dial"
            /\ si' = si
    /\ UNCHANGED << mainVars, proc, r, services, err, pi, discoveredTLScertificates,
                    conn, dialErr, certs, ci, discoveredTLScerts,
                    certsExpiryDates, ret, metricVars, now, openConns, response,
                    listings, netLog, lastCycle >>

\* A variant of Accumulate that counts the probes that succeeded instead of
\* their certificates.
Accumulate_CountProbes(count, ok, certsNum) == IF ok THEN count + 1 ELSE count

\* The cycle's count after a probe returned (ok, certsNum).
Accumulate(count, ok, certsNum) == IF ok THEN count + certsNum ELSE count

\* A variant of AfterProbe that gives the cycle up at the first probe that
\* failed.
AfterProbe_AbortOnFailure(ok) == IF ok THEN "range_port" ELSE "set_gauge"

\* Where the loop goes on after a probe returned ok: the next port,
\* whatever ok is.
AfterProbe(ok) == "range_port"

\* A variant of discoverServices_Accumulate that publishes the count after
\* every probe.
discoverServices_Accumulate_Publishing ==
    /\ Running /\ looppc = "ret"
    /\ discoveredTLScertificates' =
          Accumulate(discoveredTLScertificates, ret.ok, ret.certsNum)
    /\ discoveredCertsGauge' = discoveredTLScertificates'
    /\ pi' = pi + 1
    /\ looppc' = AfterProbe(ret.ok)
    /\ target' = NoTarget
    /\ conn' = NoConn
    /\ dialErr' = "nil"
    /\ certs' = << >>
    /\ ci' = 0
    /\ discoveredTLScerts' = 0
    /\ certsExpiryDates' = << >>
    /\ ret' = NoRet
    /\ UNCHANGED << mainVars, proc, r, services, err, si, expiredCertsGauge,
                    hearthbeatCounter, now, openConns, response, histVars >>

\* testTLS has returned: its count is added when it returned ok, its frame
\* is gone, and the range over the ports goes on.
discoverServices_Accumulate ==
    /\ Running /\ looppc = "ret"
    /\ discoveredTLScertificates' =
          Accumulate(discoveredTLScertificates, ret.ok, ret.certsNum)
    /\ pi' = pi + 1
    /\ looppc' = AfterProbe(ret.ok)
    /\ target' = NoTarget
    /\ conn' = NoConn
    /\ dialErr' = "nil"
    /\ certs' = << >>
    /\ ci' = 0
    /\ discoveredTLScerts' = 0
    /\ certsExpiryDates' = << >>
    /\ ret' = NoRet
    /\ UNCHANGED << mainVars, proc, r, services, err, si, metricVars, now,
                    openConns, response, histVars >>

\* A variant of discoverServices_SetGauge that leaves the gauge as it is
\* when the cycle has found no certificate.
discoverServices_SetGauge_IfAny ==
    /\ Running /\ looppc = "set_gauge"
    /\ discoveredCertsGauge' =
          IF discoveredTLScertificates > 0 THEN discoveredTLScertificates
          ELSE discoveredCertsGauge
    /\ looppc' = "inc"
    /\ UNCHANGED << mainVars, proc, r, cycleVars, probeVars, expiredCertsGauge,
                    hearthbeatCounter, now, openConns, response, histVars >>

\* discoveredCertsGauge.Set(float64(discoveredTLScertificates)).
discoverServices_SetGauge ==
    /\ Running /\ looppc = "set_gauge"
    /\ discoveredCertsGauge' = discoveredTLScertificates
    /\ looppc' = "inc"
    /\ UNCHANGED << mainVars, proc, r, cycleVars, probeVars, expiredCertsGauge,
                    hearthbeatCounter, now, openConns, response, histVars >>

\* A variant of discoverServices_IncHeartbeat that counts only the cycles
\* that discovered a certificate.
discoverServices_IncHeartbeat_IfDiscovered ==
    /\ Running /\ looppc = "inc"
    /\ hearthbeatCounter' =
          IF discoveredTLScertificates > 0 THEN hearthbeatCounter + 1
          ELSE hearthbeatCounter
    /\ looppc' = "sleep"
    /\ lastCycle' = [number |-> listings, total |-> SumOfSuccessful(netLog)]
    /\ UNCHANGED << mainVars, proc, r, cycleVars, probeVars, expiredCertsGauge,
                    discoveredCertsGauge, now, openConns, response, listings,
                    probed, netLog >>

\* hearthbeatCounter.Inc().
discoverServices_IncHeartbeat ==
    /\ Running /\ looppc = "inc"
    /\ hearthbeatCounter' = hearthbeatCounter + 1
    /\ looppc' = "sleep"
    /\ lastCycle' = [number |-> listings, total |-> SumOfSuccessful(netLog)]
    /\ UNCHANGED << mainVars, proc, r, cycleVars, probeVars, expiredCertsGauge,
                    discoveredCertsGauge, now, openConns, response, listings,
                    probed, netLog >>

\* A variant of discoverServices_Sleep that leaves the loop after the sleep.
discoverServices_Sleep_Return ==
    /\ Running /\ looppc = "sleep"
    /\ hearthbeatCounter < MaxCycles
    /\ now' = now + discoverFrequency
    /\ looppc' = "returned"
    /\ UNCHANGED << mainVars, proc, r, cycleVars, probeVars, metricVars,
                    openConns, response, histVars >>

\* time.Sleep(discoverFrequency), then the next iteration of the for loop.
discoverServices_Sleep ==
    /\ Running /\ looppc = "sleep"
    /\ hearthbeatCounter < MaxCycles
    /\ now' = now + discoverFrequency
    /\ looppc' = "list"
    /\ UNCHANGED << mainVars, proc, r, cycleVars, probeVars, metricVars,
                    openConns, response, histVars >>

\* ------------------------------------------------------------------ specification

\* The steps of the discoverServices goroutine.
discoverServices ==
    \/ discoverServices_Setup
    \/ discoverServices_List
    \/ discoverServices_RangeServices
    \/ discoverServices_RangePorts
    \/ testTLS_Dial
    \/ testTLS_DialTimeout
    \/ testTLS_Write
    \/ testTLS_RangeCerts
    \/ testTLS_Return
    \/ discoverServices_Accumulate
    \/ discoverServices_SetGauge
    \/ discoverServices_IncHeartbeat
    \/ discoverServices_Sleep

\* The steps of main.
main ==
    \/ main_ParseFlags
    \/ main_Go
    \/ main_ListenAndServe

\* The requests the HTTP server handles.
Handlers ==
    \/ promhttp_Handler
    \/ \E path \in HealthPaths : healthcheckHandler(path)

Next == main \/ discoverServices \/ Handlers

Spec == Init /\ [][Next]_vars

\* The Go scheduler runs every runnable goroutine: main and the loop take
\* their next step as long as the process lives.
FairSpec == Spec /\ WF_vars(main) /\ WF_vars(discoverServices)


\* ------------------------------------------------------------------ properties

\* The positions of the loop inside a scan cycle: the listing succeeded and
\* the sleep has not been reached.
CyclePositions ==
    { "range_svc", "range_port", "dial", "dialing", "write", "range_certs",
      "ret", "set_gauge", "inc" }

InCycle == looppc \in CyclePositions

\* The cycles that have reached their end: the listings that succeeded,
\* less the cycle in progress.
CyclesEnded == IF InCycle THEN listings - 1 ELSE listings

AnyProbeFailed == \E i \in 1..Len(netLog) : ~netLog[i].ok

\* C1: the heartbeat counter equals the number of scan cycles that have
\* reached their end, whatever their probes did; it never decreases, and it
\* changes only by one, in the step from the increment to the sleep.
C1_HeartbeatOncePerCycle ==
    /\ [](hearthbeatCounter = CyclesEnded)
    /\ [][hearthbeatCounter' >= hearthbeatCounter]_vars
    /\ [][hearthbeatCounter' # hearthbeatCounter
            => /\ looppc = "inc" /\ looppc' = "sleep"
               /\ hearthbeatCounter' = hearthbeatCounter + 1]_vars

\* Two cycles have ended, the second with a probe that failed and a service
\* that was probed.
C1_Witness ==
    /\ looppc = "sleep" /\ hearthbeatCounter = 2
    /\ Len(netLog) = 2 /\ AnyProbeFailed

\* C2: once a cycle has set the discovered-certificates gauge, the gauge is
\* the sum of the chain lengths of that cycle's successful probes: failed
\* probes and skipped services add nothing, and nothing is left of the
\* cycles before.
C2_GaugeIsSumOfSuccessfulProbes ==
    (looppc \in {"inc", "sleep"} \/ (looppc = "list" /\ listings >= 1))
        => discoveredCertsGauge = SumOfSuccessful(netLog)

\* The second cycle has ended with one probe that failed and one that
\* found a chain of three certificates.
C2_Witness ==
    /\ looppc = "sleep" /\ hearthbeatCounter = 2
    /\ AnyProbeFailed
    /\ discoveredCertsGauge = 3

\* Whether the skip policy excludes a namespace: the pattern is not empty
\* and occurs in the namespace, at its start when the pattern begins with ^.
OccursAt(lit, ns, at) ==
    /\ at + Len(lit) <= Len(ns)
    /\ \A i \in 1..Len(lit) : ns[at + i] = lit[i]

SkippedByPolicy(pattern, ns) ==
    /\ pattern # << >>
    /\ IF Head(pattern) = "^"
       THEN OccursAt(Tail(pattern), ns, 0)
       ELSE \E at \in 0..Len(ns) : OccursAt(pattern, ns, at)

\* The probes a cycle over items owes, in directory order: every port
\* entry of every service whose namespace the policy does not exclude.
RECURSIVE ProbesOwed(_, _, _)
ProbesOwed(items, from, pattern) ==
    IF from > Len(items) THEN << >>
    ELSE (IF SkippedByPolicy(pattern, items[from].namespace)
          THEN << >>
          ELSE [p \in 1..Len(items[from].ports) |-> << from, p >>])
         \o ProbesOwed(items, from + 1, pattern)

IsPrefix(s, t) == Len(s) <= Len(t) /\ SubSeq(t, 1, Len(s)) = s

CycleOver == looppc \in {"set_gauge", "inc", "sleep"}

\* C3: in every cycle the probes made so far are the first of the probes
\* owed, in directory order and each made once, whatever the earlier probes
\* returned; when the cycle is over all of them have been made, and each
\* was attempted once.
C3_EveryPortProbedOnce ==
    (InCycle \/ looppc = "sleep")
        => /\ IsPrefix(probed, ProbesOwed(services, 1, args.skipNamespaceRegex))
           /\ Len(netLog) <= Len(probed)
           /\ Len(probed) <= Len(netLog) + 1
           /\ CycleOver
                => /\ probed = ProbesOwed(services, 1, args.skipNamespaceRegex)
                   /\ Len(netLog) = Len(probed)

\* A cycle over a service with two ports is over: the first probe failed
\* and the second was made all the same.
C3_Witness ==
    /\ looppc = "set_gauge"
    /\ probed = << << 1, 1 >>, << 1, 2 >> >>
    /\ ~netLog[1].ok /\ netLog[2].ok


\* The probe in progress has been refused by the network: the dial or the
\* write failed.
ProbePositions == { "dial", "dialing", "write", "range_certs", "ret" }

ProbeFailed ==
    /\ looppc \in ProbePositions
    /\ netLog # << >>
    /\ Len(netLog) = Len(probed)
    /\ ~netLog[Len(netLog)].ok

\* The step in which conn.Write fails.
WriteFails ==
    /\ looppc = "write"
    /\ Len(netLog') = Len(netLog) + 1
    /\ ~netLog'[Len(netLog')].ok

\* testTLS has returned after a handshake that succeeded and a write that
\* failed.
ReturnedAfterWriteFailure ==
    /\ looppc = "ret"
    /\ conn.state = "closed"
    /\ ~netLog[Len(netLog)].ok

\* C4, as claimed: after a handshake that succeeded and a write that
\* failed, the probe yields the full chain, which is counted.
C4_ChainSurvivesWriteFailure ==
    ReturnedAfterWriteFailure
        => ret.ok /\ ret.certsNum = Len(conn.peerCertificates)

\* C4, amended: when the write fails after a handshake that succeeded,
\* the probe returns failure and zero certificates; no series is written in
\* that step and the caller's count stays as it was.
C4_WriteFailureDropsChain ==
    /\ [][WriteFails
            => /\ looppc' = "ret"
               /\ ~ret'.ok /\ ret'.certsNum = 0
               /\ expiredCertsGauge' = expiredCertsGauge]_vars
    /\ [](ReturnedAfterWriteFailure => ~ret.ok /\ ret.certsNum = 0)
    /\ [][ReturnedAfterWriteFailure /\ looppc' # looppc
            => discoveredTLScertificates' = discoveredTLScertificates]_vars

\* A server presented three certificates, the write failed and testTLS has
\* returned.
C4_Witness ==
    /\ ReturnedAfterWriteFailure
    /\ Len(conn.peerCertificates) = 3
    /\ ret.set

\* C5: from the step in which a probe fails to the step in which the loop
\* takes its return, no series changes and none is created.
C5_FailedProbeWritesNoSeries ==
    [][(looppc \in ProbePositions /\ (ProbeFailed \/ ProbeFailed'))
         => expiredCertsGauge' = expiredCertsGauge]_vars

\* A probe has failed for a target that has series of an earlier cycle.
C5_Witness ==
    /\ ProbeFailed /\ looppc = "ret"
    /\ hearthbeatCounter >= 1
    /\ \E k \in DOMAIN expiredCertsGauge :
          /\ k[1] = target.namespace /\ k[2] = target.svc
          /\ k[3] = Itoa(target.port)

\* The loop takes a step at the head of the range over the services.
RangeServicesStep ==
    /\ looppc = "range_svc"
    /\ si <= Len(services)
    /\ << looppc, si, pi >>' # << looppc, si, pi >>

\* C6: a service is skipped exactly when the policy excludes its
\* namespace: then the loop moves to the next service without a probe and
\* without writing a series, and otherwise it enters the range over the
\* service's ports; no probe is ever made for an excluded namespace, and
\* with the empty pattern every service of the listing is probed.
C6_SkippedIffPatternMatches ==
    /\ [][RangeServicesStep
            => IF SkippedByPolicy(args.skipNamespaceRegex, services[si].namespace)
               THEN /\ looppc' = "range_svc" /\ si' = si + 1
                    /\ probed' = probed
                    /\ expiredCertsGauge' = expiredCertsGauge
               ELSE /\ looppc' = "range_port" /\ si' = si /\ pi' = 1]_vars
    /\ [](\A i \in 1..Len(probed) :
             ~SkippedByPolicy(args.skipNamespaceRegex,
                              services[probed[i][1]].namespace))
    /\ [](args.skipNamespaceRegex = << >> /\ CycleOver
            => \A j \in 1..Len(services) :
                  \E i \in 1..Len(probed) : probed[i][1] = j)

\* With the pattern ^kube- the first service, of namespace kube-system, was
\* skipped and the second is being probed.
C6_Witness ==
    /\ args.skipNamespaceRegex # << >>
    /\ looppc = "dial" /\ si = 2
    /\ probed = << << 2, 1 >> >>
    /\ services[1].namespace = NsKubeSystem

\* C7: when the listing returns an error the process panics in that step
\* and nothing happens afterwards: no probe, no update of the gauge or of
\* the heartbeat, no second listing.
C7_ListingFailureIsFatal ==
    /\ [](err => proc = "panic" /\ looppc = "list")
    /\ [][err' /\ ~err
            => UNCHANGED << metricVars, probed, netLog, listings, openConns >>]_vars
    /\ [][proc = "panic" => FALSE]_vars

\* The second listing failed: the gauge and the heartbeat are those of the
\* first cycle.
C7_Witness ==
    /\ err /\ proc = "panic"
    /\ hearthbeatCounter = 1
    /\ discoveredCertsGauge = 3

\* The step writes the series k: it is an iteration of the range over the
\* certificates, k is the label tuple of the certificate at hand and the
\* value it leaves is notAfter less the time of the step, in seconds.
WritesSeries(k) ==
    /\ looppc = "range_certs"
    /\ ci <= Len(certs)
    /\ k[1] = target.namespace /\ k[2] = target.svc
    /\ k[4] = certs[ci].issuerCN /\ k[5] = certs[ci].issuerSerial
    /\ expiredCertsGauge'[k].sec * 1000 + expiredCertsGauge'[k].msec
          = certs[ci].notAfter - now

\* C8: no step removes a series, and a step that creates a series or
\* changes its value is the write of that series, which leaves the value
\* of the certificate at hand and nothing of the value held before.
C8_SeriesOverwrittenNeverRemoved ==
    [][/\ DOMAIN expiredCertsGauge \subseteq DOMAIN expiredCertsGauge'
       /\ \A k \in DOMAIN expiredCertsGauge' :
             (k \notin DOMAIN expiredCertsGauge
                 \/ expiredCertsGauge'[k] # expiredCertsGauge[k])
                => WritesSeries(k)]_vars

\* After a second cycle over another listing the series of a service of
\* the first listing is still there, with the value of the first cycle.
C8_Witness ==
    /\ looppc = "sleep" /\ hearthbeatCounter = 2
    /\ \A j \in 1..Len(services) : services[j].name # "web"
    /\ \E k \in DOMAIN expiredCertsGauge :
          /\ k[2] = "web"
          /\ expiredCertsGauge[k].sec * 1000 + expiredCertsGauge[k].msec
                = CertLeaf.notAfter


\* The loop has been stopped by the bound on the number of cycles.
CyclesExhausted == hearthbeatCounter = MaxCycles

\* The only ways into and out of the sleep: in from the increment of the
\* heartbeat, out to the next listing.
SleepFollowsCycle ==
    /\ looppc' = "sleep" => looppc \in {"inc", "sleep"}
    /\ looppc = "sleep" => looppc' \in {"sleep", "list"}
    /\ looppc' = "list" => looppc \in {"setup", "sleep", "list"}

\* The loop has been entered: it is at a listing, in a cycle or asleep.
LoopEntered == looppc \in CyclePositions \cup {"list", "sleep"}

MainReturned == proc = "exit0"

loopVars ==
    << looppc, r, cycleVars, probeVars, metricVars, now, openConns, histVars >>

\* C10: while the server listens, a scrape and both health requests can be
\* served wherever the loop stands; the loop can take its next step
\* whatever has been served; serving a request changes nothing of the
\* loop's and a step of the loop changes no response; and a health request
\* is answered with status 200 and the same text on both paths.
C10_ServingIndependentOfScan ==
    /\ [](Serving
            => /\ ENABLED promhttp_Handler
               /\ \A path \in HealthPaths : ENABLED healthcheckHandler(path))
    /\ [](Running /\ looppc \notin {"notstarted"}
                  /\ ~(looppc = "sleep" /\ CyclesExhausted)
            => ENABLED discoverServices)
    /\ [][response' # response => UNCHANGED loopVars]_vars
    /\ [][response' # response /\ response'.path \in HealthPaths
            => /\ response'.status = 200
               /\ response'.text = "Mi sento bene!"]_vars

\* In the middle of a probe, after a probe that failed, the last request
\* served was a scrape that read the heartbeat of the first cycle.
C10_Witness ==
    /\ Serving
    /\ looppc = "write" /\ AnyProbeFailed
    /\ hearthbeatCounter = 1
    /\ response.path = "/metrics" /\ response.status = 200
    /\ response.metrics.heartbeat = 1


\* The command line has a duration that does not parse.
BadDurations ==
    ParseDuration(args.frequency).err \/ ParseDuration(args.timeout).err

\* The command line has a skip pattern that is not empty and does not
\* compile.
BadPattern ==
    /\ args.skipNamespaceRegex # << >>
    /\ regexp_Compile(args.skipNamespaceRegex).err

\* C11: with a duration that does not parse the only step main takes is the
\* exit with status 1, and the loop and the listener are never started;
\* with a skip pattern that does not compile the loop never leaves its
\* set-up, whose only outcome is the panic, so no listing and no probe is
\* made; and once the loop is past its set-up the compiled pattern never
\* changes.
C11_MalformedConfigurationIsFatal ==
    /\ [](BadDurations
            => /\ mainpc = "parse" /\ looppc = "notstarted"
               /\ proc \in {"running", "exit1"})
    /\ [][BadDurations => proc' = "exit1"]_vars
    /\ [](proc = "exit1" => BadDurations)
    /\ [](BadPattern
            => /\ looppc \in {"notstarted", "setup"}
               /\ proc # "exit0" => mainpc # "returned"
               /\ listings = 0 /\ probed = << >> /\ ~err
               /\ Running /\ looppc = "setup" => ENABLED discoverServices_Setup)
    /\ [][BadPattern /\ looppc = "setup" /\ proc' \notin {proc, "exit0"}
            => proc' = "panic"]_vars
    /\ [][looppc \notin {"notstarted", "setup"} => r' = r]_vars

\* The pattern did not compile: the process has panicked in the set-up of
\* the loop, with the listener already up and no listing made.
C11_Witness ==
    /\ BadPattern /\ ~BadDurations
    /\ proc = "panic" /\ looppc = "setup"
    /\ mainpc = "serving"
    /\ listings = 0

\* C12: the process holds one connection open exactly while a probe stands
\* between its dial and its return, and none anywhere else: a probe that has
\* returned, by whatever path, has closed the connection it opened, and no
\* connection is open while the loop sleeps.
C12_ConnectionAlwaysReleased ==
    /\ openConns = (IF looppc \in {"write", "range_certs"} THEN 1 ELSE 0)
    /\ conn.state = "open" <=> looppc \in {"write", "range_certs"}
    /\ looppc = "ret" => conn.state \in {"nil", "closed"}
    /\ looppc = "sleep" => openConns = 0 /\ conn = NoConn

\* A probe has returned after a write that failed on the connection it had
\* opened, and the connection is closed.
C12_Witness ==
    /\ ReturnedAfterWriteFailure
    /\ ret.set /\ ~ret.ok
    /\ conn.state = "closed" /\ openConns = 0
    /\ hearthbeatCounter = 1


\* C13: a dial blocked on an address that does not answer is never stuck
\* while the process lives: the expiry of the dialer's time limit is
\* enabled; the only way out of the blocked dial is the return of the probe
\* with a failure, zero certificates and no connection left open; and the
\* cycle goes on from there to its end, unless main returns first and takes
\* the whole process with it.
C13_UnansweredDialReturnsFailure ==
    /\ [](Running /\ looppc = "dialing" => ENABLED testTLS_DialTimeout)
    /\ [][looppc = "dialing" /\ looppc' # "dialing"
            => /\ looppc' = "ret"
               /\ dialErr' = "timeout"
               /\ ret' = [ok |-> FALSE, certsNum |-> 0, set |-> TRUE]
               /\ conn' = NoConn /\ openConns' = 0
               /\ UNCHANGED metricVars]_vars
    /\ (looppc = "dialing") ~> (looppc = "sleep" \/ MainReturned)

\* After a first cycle that reached its end, both probes of the second
\* cycle ran into the time limit: the first is in the log, the second has
\* just returned with the failure.
C13_Witness ==
    /\ looppc = "ret" /\ dialErr = "timeout"
    /\ ret.set /\ ~ret.ok /\ ret.certsNum = 0
    /\ tlsTimeout = 400
    /\ Len(netLog) = 2 /\ ~netLog[1].ok /\ ~netLog[2].ok
    /\ hearthbeatCounter = 1


\* The port numbers of the listings, written in decimal.
PortLabel(port) ==
    CASE port = 443 -> << "4", "4", "3" >>
      [] port = 80 -> << "8", "0" >>
      [] port = 53 -> << "5", "3" >>

\* The series key of a certificate presented at a target: nothing of the
\* cycle or of the clock is in it.
SeriesKey(t, cert) ==
    << t.namespace, t.svc, PortLabel(t.port), cert.issuerCN, cert.issuerSerial >>

\* C14: the write of a certificate's value goes to the series whose key is
\* made of the target's namespace, service and port and of the
\* certificate's issuer and issuer serial number and of nothing else, so a
\* certificate seen again at the same target in a later cycle is written
\* under the key it had: the write adds no series then and changes no
\* other series' value.
C14_KeysStableAcrossCycles ==
    [][looppc = "range_certs" /\ ci' = ci + 1
          => LET k == SeriesKey(target, certs[ci])
             IN  /\ DOMAIN expiredCertsGauge'
                       = DOMAIN expiredCertsGauge \cup {k}
                 /\ \A j \in DOMAIN expiredCertsGauge \ {k} :
                       expiredCertsGauge'[j] = expiredCertsGauge[j]
                 /\ k \in DOMAIN expiredCertsGauge
                       => DOMAIN expiredCertsGauge' = DOMAIN expiredCertsGauge]_vars

\* The service web has presented the same single certificate in the first
\* cycle and in the second, and nothing else was probed: there is one
\* series, and it holds the value of the second cycle.
C14_Witness ==
    /\ hearthbeatCounter = 1 /\ discoveredCertsGauge = 1
    /\ looppc = "ret" /\ ret.ok /\ ret.certsNum = 1
    /\ target.svc = "web" /\ Len(netLog) = 1
    /\ DOMAIN expiredCertsGauge = {SeriesKey(target, CertLeaf)}
    /\ LET v == expiredCertsGauge[SeriesKey(target, CertLeaf)]
       IN  v.sec * 1000 + v.msec = CertLeaf.notAfter - now
    /\ now > 0


\* The calendar days of the expirations of the first n certificates of a
\* chain, in chain order.
ExpiryDays(chain, n) ==
    [i \in 1..n |-> << "day", chain[i].notAfter \div 86400000 >>]

\* C15: a probe that got through works on the chain the peer presented,
\* one certificate per step from the leaf on: before the step for
\* certificate i the count is i - 1 and the dates recorded are those of
\* the i - 1 certificates before it, in chain order, behind the ten empty
\* strings the slice starts with; the step for certificate i writes that
\* certificate's value; and the probe returns, after the step for the last
\* certificate, the length of the chain as its count.
C15_OneRecordPerCertificateInOrder ==
    /\ [](looppc = "range_certs"
            => /\ certs = conn.peerCertificates
               /\ ci \in 1..(Len(certs) + 1)
               /\ discoveredTLScerts = ci - 1
               /\ certsExpiryDates = MakeStrings \o ExpiryDays(certs, ci - 1))
    /\ [][looppc = "range_certs" /\ ci' # ci
            => /\ ci <= Len(certs) /\ ci' = ci + 1
               /\ LET v == expiredCertsGauge'[SeriesKey(target, certs[ci])]
                  IN  v.sec * 1000 + v.msec = certs[ci].notAfter - now]_vars
    /\ [](looppc = "ret" /\ ret.ok
            => /\ ret.certsNum = Len(conn.peerCertificates)
               /\ ci = Len(conn.peerCertificates) + 1
               /\ certsExpiryDates
                     = MakeStrings \o ExpiryDays(certs, Len(certs)))

\* A probe of a chain of three certificates has returned three as its
\* count, with the three dates recorded leaf first.
C15_Witness ==
    /\ looppc = "ret" /\ ret.ok /\ ret.certsNum = 3
    /\ conn.peerCertificates = << CertLeaf, CertRenewed, CertOld >>
    /\ SubSeq(certsExpiryDates, 11, 13)
          = ExpiryDays(<< CertLeaf, CertRenewed, CertOld >>, 3)


\* C16: the value written for a certificate is its notAfter minus the clock
\* of the probe, in seconds: above zero when notAfter lies ahead, below
\* zero when it lies behind; and a certificate that has expired does not
\* stop the probe: its step is enabled, counts it like any other and goes on
\* with the chain.
C16_ValueIsSecondsToExpiration ==
    /\ [](Running /\ looppc = "range_certs" /\ ci <= Len(certs)
            => ENABLED testTLS_RangeCerts)
    /\ [][looppc = "range_certs" /\ ci' = ci + 1
            => LET cert == certs[ci]
                   v == expiredCertsGauge'[SeriesKey(target, cert)]
               IN  /\ v.sec * 1000 + v.msec = cert.notAfter - now
                   /\ cert.notAfter > now
                         => v.sec >= 0 /\ v.msec >= 0 /\ v.sec + v.msec > 0
                   /\ cert.notAfter < now
                         => v.sec <= 0 /\ v.msec <= 0 /\ v.sec + v.msec < 0
                   /\ discoveredTLScerts' = discoveredTLScerts + 1
                   /\ looppc' = "range_certs" /\ proc' = proc]_vars

\* A chain whose last certificate had expired a second and a half before
\* the probe was counted in full: the expired certificate's series holds
\* -1.5 seconds, the series of the others a value above zero.
C16_Witness ==
    /\ looppc = "ret" /\ ret.ok /\ ret.certsNum = 3
    /\ now = 0 /\ CertOld.notAfter < now
    /\ expiredCertsGauge[SeriesKey(target, CertOld)] = [sec |-> -1, msec |-> -500]
    /\ expiredCertsGauge[SeriesKey(target, CertRenewed)].sec > 0


\* The series keys of the certificates of a chain presented at a target.
ChainKeys(t, chain) ==
    { SeriesKey(t, chain[i]) : i \in 1..Len(chain) }

\* The place in the chain of the last certificate whose series key is k.
LastWithKey(t, chain, k) ==
    CHOOSE i \in 1..Len(chain) :
        /\ SeriesKey(t, chain[i]) = k
        /\ \A j \in (i + 1)..Len(chain) : SeriesKey(t, chain[j]) # k

\* C17: when a probe that got through returns, each series key of its
\* chain holds the value of the last certificate of the chain that has
\* that key, while the count returned is the length of the chain, which is
\* at least the number of keys; and at the end of the first cycle, when
\* every series there is was written in that cycle, the number of series is
\* at most the discovered-certificates gauge.
C17_SharedKeyHoldsLastCertificate ==
    /\ looppc = "ret" /\ ret.ok
          => /\ \A k \in ChainKeys(target, certs) :
                   /\ k \in DOMAIN expiredCertsGauge
                   /\ expiredCertsGauge[k].sec * 1000 + expiredCertsGauge[k].msec
                         = certs[LastWithKey(target, certs, k)].notAfter - now
             /\ ret.certsNum = Len(certs)
             /\ Cardinality(ChainKeys(target, certs)) <= ret.certsNum
    /\ listings = 1 /\ looppc \in {"inc", "sleep"}
          => Cardinality(DOMAIN expiredCertsGauge) <= discoveredCertsGauge

\* The first cycle found one chain of three certificates, two of them of
\* the same issuer and issuer serial number: the gauge reads three, there
\* are two series, and the shared one holds the value of the later of the
\* two certificates.
C17_Witness ==
    /\ listings = 1 /\ looppc = "sleep" /\ now = 0
    /\ discoveredCertsGauge = 3
    /\ Cardinality(DOMAIN expiredCertsGauge) = 2
    /\ CertLeaf.issuerCN = CertRenewed.issuerCN
    /\ CertLeaf.issuerSerial = CertRenewed.issuerSerial
    /\ \E k \in DOMAIN expiredCertsGauge :
          /\ k[4] = CertRenewed.issuerCN /\ k[5] = CertRenewed.issuerSerial
          /\ expiredCertsGauge[k].sec * 1000 + expiredCertsGauge[k].msec
                = CertRenewed.notAfter


\* A cycle is in progress and has not set the discovered-certificates
\* gauge yet.
CycleInProgress == looppc \in CyclePositions \ {"inc"}

\* C18: the discovered-certificates gauge changes in no step but the one
\* that sets it at the end of a cycle; while a cycle is in progress it
\* holds the total of the cycle completed before, 0 when there is none,
\* whatever the cycle has counted so far, and that is what a scrape
\* reads; the seconds-to-expiration series are written by the steps of the
\* probes, inside the cycle.
C18_DiscoveredGaugeChangesAtCycleEnd ==
    /\ [](CycleInProgress
            => /\ lastCycle.number = listings - 1
               /\ discoveredCertsGauge = lastCycle.total
               /\ listings = 1 => discoveredCertsGauge = 0)
    /\ [][discoveredCertsGauge' # discoveredCertsGauge
            => /\ looppc = "set_gauge" /\ looppc' = "inc"
               /\ discoveredCertsGauge' = SumOfSuccessful(netLog)
               /\ expiredCertsGauge' = expiredCertsGauge]_vars
    /\ [][expiredCertsGauge' # expiredCertsGauge
            => /\ looppc = "range_certs" /\ looppc' = "range_certs"
               /\ discoveredCertsGauge' = discoveredCertsGauge]_vars
    /\ [][response' # response /\ response'.path = "/metrics"
            => response'.metrics.discovered = discoveredCertsGauge]_vars

\* A scrape was served in the second cycle after the cycle's first probe
\* had found three certificates: it read the total of the first cycle, one,
\* while a series written by the second cycle stands next to the series
\* the first cycle left.
C18_Witness ==
    /\ hearthbeatCounter = 1 /\ looppc = "range_port"
    /\ discoveredTLScertificates = 3
    /\ lastCycle = [number |-> 1, total |-> 1]
    /\ response.path = "/metrics" /\ response.metrics.discovered = 1
    /\ \E k1, k2 \in DOMAIN expiredCertsGauge :
          /\ k1[2] = "web" /\ k2[2] = "api"
          /\ expiredCertsGauge[k1].sec * 1000 + expiredCertsGauge[k1].msec
                = CertLeaf.notAfter
          /\ expiredCertsGauge[k2].sec * 1000 + expiredCertsGauge[k2].msec
                = CertRenewed.notAfter - now


\* C19: the heartbeat is incremented by the step that follows the set of
\* the gauge, so at the increment that makes the heartbeat k the gauge
\* holds the total of cycle k already; and wherever the heartbeat reads
\* k >= 1 the gauge holds the total of cycle k + 1, when that cycle has set
\* it and not yet incremented the heartbeat, and otherwise the total of
\* cycle k, the last cycle that has completed.
C19_GaugeSetBeforeHeartbeat ==
    /\ [][hearthbeatCounter' # hearthbeatCounter
            => /\ looppc = "inc" /\ listings = hearthbeatCounter'
               /\ discoveredCertsGauge = SumOfSuccessful(netLog)
               /\ discoveredCertsGauge' = discoveredCertsGauge]_vars
    /\ [](hearthbeatCounter >= 1
            => IF looppc = "inc"
               THEN /\ listings = hearthbeatCounter + 1
                    /\ discoveredCertsGauge = SumOfSuccessful(netLog)
               ELSE /\ lastCycle.number = hearthbeatCounter
                    /\ discoveredCertsGauge = lastCycle.total)

\* The second cycle has set the gauge to its total, none, and has not
\* incremented the heartbeat yet: the heartbeat reads one, the total of
\* the first cycle was three.
C19_Witness ==
    /\ looppc = "inc" /\ hearthbeatCounter = 1
    /\ lastCycle = [number |-> 1, total |-> 3]
    /\ discoveredCertsGauge = 0
    /\ SumOfSuccessful(netLog) = 0 /\ Len(netLog) >= 1

====
